---------------------------- MODULE Spec2Model ----------------------------
(***************************************************************************)
(* Ultrasonic TDOA positioning (position.c).                               *)
(*                                                                         *)
(* The interrupt handler positioningHandler reads four captured 32-bit     *)
(* timestamps, turns them into three distance differences, runs the damped *)
(* Newton iteration and publishes x, y, fxy and new_data.  Main-line       *)
(* consumers call position_data_available, position_x, position_y, error.  *)
(*                                                                         *)
(* Numbers.  A uint32 is a pair <<hi, lo>> of 16-bit limbs, so that the    *)
(* modulo-2^32 subtraction and the int32 cast are computed, not assumed.   *)
(* A float is a fixed-point integer: lengths inside the solver in          *)
(* milli-feet (FT units per foot), diff[i] in micro-feet (one tick is      *)
(* exactly 1135 micro-feet), the cost F in micro-feet^2, direction ratios  *)
(* in 1/RATIO.  Divisions and the square root round to nearest, as the     *)
(* floating-point unit does.                                               *)
(***************************************************************************)
EXTENDS Integers, Sequences, FiniteSets

(* ------------------------------ constants ----------------------------- *)
FT == 1000                 \* model units per foot of a float length
RATIO == 1000              \* model units of a dimensionless float in [-1, 1]

X == 23500                 \* 23.5 ft
Y == 33750                 \* 33.75 ft
Z == 7583                  \* 7.583 ft
CLOCK_FREQ == 1000000      \* Hz
WAVE_SPEED == 1135         \* ft/s
TX_SPACING == 100          \* ms
EPSILON == 500             \* 0.5 ft
DEL_FACTOR_INV == 10       \* DEL_FACTOR 0.1, held as its reciprocal
MAX_ERROR == 500000        \* 0.5 ft^2, in micro-feet^2
ERROR_THRESHOLD == 10000   \* 0.01 ft^2, in micro-feet^2
MAX_ITERATIONS == 100

(* ------------------------------ uint32 -------------------------------- *)
LIMB == 65536

U32(n) == <<n \div LIMB, n % LIMB>>

ULONG_MAX == <<LIMB - 1, LIMB - 1>>

\* a - b modulo 2^32
Sub32(a, b) ==
    LET lo == a[2] - b[2]
        borrow == IF lo < 0 THEN 1 ELSE 0
    IN  <<(a[1] - b[1] - borrow) % LIMB, lo % LIMB>>

Lt32(a, b) == a[1] < b[1] \/ (a[1] = b[1] /\ a[2] < b[2])

\* faulty variant: the cast a 16-bit int makes (low limb, sign bit 15)
ToInt16(u) == IF u[2] >= LIMB \div 2 THEN u[2] - LIMB ELSE u[2]

\* (int32)u: two's complement reading of the 32 bits
ToInt32(u) == IF u[1] >= LIMB \div 2 THEN (u[1] - LIMB) * LIMB + u[2]
              ELSE u[1] * LIMB + u[2]

(* ------------------------------ floats -------------------------------- *)
Abs(a) == IF a >= 0 THEN a ELSE -a

\* a / b rounded to nearest (b > 0)
RDiv(a, b) == IF a >= 0 THEN (a + b \div 2) \div b ELSE -((b \div 2 - a) \div b)

fabsf(num) == IF num >= 0 THEN num ELSE -num

RECURSIVE Newton(_, _)
Newton(n, r) == LET s == (r + n \div r) \div 2
                IN  IF s >= r THEN r ELSE Newton(n, s)

\* sqrt(n) rounded to nearest, n in 0 .. 2^31 - 1
sqrt(n) == IF n = 0 THEN 0
           ELSE LET r == Newton(n, 46340)
                IN  IF n - r * r > r THEN r + 1 ELSE r

(* --------------------- TDOA difference computation -------------------- *)
\* one tick of the capture clock in micro-feet: WAVE_SPEED/CLOCK_FREQ feet
TickLen == (WAVE_SPEED * FT * FT) \div CLOCK_FREQ

\* faulty variant: the staleness comparison left out
BadTimeOnlyZero(t) == t = U32(0)

\* time[i] == 0u || time[i] < ULONG_MAX - CLOCK_FREQ
BadTime(t) == t = U32(0) \/ Lt32(t, Sub32(ULONG_MAX, U32(CLOCK_FREQ)))

\* (int32)(time[0] - time[i]) - i*(CLOCK_FREQ/1000*TX_SPACING)
Ticks(time, i) ==
    ToInt32(Sub32(time[0], time[i])) - i * ((CLOCK_FREQ \div 1000) * TX_SPACING)

\* diff[i], in micro-feet
Diff(time, i) == Ticks(time, i) * TickLen

\* fabsf(diff[i]) > X + Y
Implausible(d) == fabsf(d) > (X + Y) * FT

(* ------------------------------ solver -------------------------------- *)
\* the x and y offsets of hypothesis (nx, ny) from transmitter k
OffX(nx, k) == IF k \in {0, 3} THEN nx + X \div 2 ELSE nx - X \div 2
OffY(ny, k) == IF k \in {0, 1} THEN ny + Y \div 2 ELSE ny - Y \div 2

\* dist[k] = sqrt(offx^2 + offy^2 + Z*Z)
Dist(nx, ny, k) == sqrt(OffX(nx, k) * OffX(nx, k) + OffY(ny, k) * OffY(ny, k) + Z * Z)

\* One evaluation of the loop body up to the gradient: the cost new_fxy and
\* the partial derivatives dfx, dfy at (nx, ny) for measured differences diff.
Evaluate(nx, ny, diff) ==
    LET dist == [k \in 0..3 |-> Dist(nx, ny, k)]
        err == [i \in 1..3 |-> (dist[i] - dist[0]) - RDiv(diff[i], FT)]
        rx == [k \in 0..3 |-> RDiv(OffX(nx, k) * RATIO, dist[k])]
        ry == [k \in 0..3 |-> RDiv(OffY(ny, k) * RATIO, dist[k])]
        dfx == RDiv(2 * err[2] * (rx[2] - rx[0]) + 2 * err[3] * (rx[3] - rx[0])
                    + 2 * err[1] * (rx[1] - rx[0]), RATIO)
        dfy == RDiv(2 * err[2] * (ry[2] - ry[0]) + 2 * err[3] * (ry[3] - ry[0])
                    + 2 * err[1] * (ry[1] - ry[0]), RATIO)
    IN  [fxy |-> err[1] * err[1] + err[2] * err[2] + err[3] * err[3],
         dfx |-> dfx, dfy |-> dfy,
         gms |-> dfx * dfx + dfy * dfy]

\* The common power of ten by which F and the squared gradient are scaled so
\* that F * df and DEL_FACTOR_INV * gms stay inside the machine integers.
RECURSIVE Scale(_, _, _, _)
Scale(F, df, gms, s) ==
    IF (df # 0 /\ F \div s > 1000000000 \div Abs(df)) \/ gms \div s > 100000000
    THEN Scale(F, df, gms, 10 * s) ELSE s

\* faulty variant: a damping factor of 0.01
StepHundredth(F, df, gms) ==
    LET s == Scale(F, df, gms, 1)
    IN  RDiv(RDiv((F \div s) * df, DEL_FACTOR_INV * (gms \div s)), 10)

\* DEL_FACTOR * new_fxy * df / gradient_magnitude_squared
Step(F, df, gms) ==
    LET s == Scale(F, df, gms, 1)
    IN  RDiv((F \div s) * df, DEL_FACTOR_INV * (gms \div s))

\* faulty variant: iters <= MAX_ITERATIONS
LoopContinuesInclusive(F, iters) ==
    fabsf(F) > ERROR_THRESHOLD /\ iters <= MAX_ITERATIONS

\* while ((fabsf(new_fxy) > ERROR_THRESHOLD) && (iters < MAX_ITERATIONS))
LoopContinues(F, iters) == fabsf(F) > ERROR_THRESHOLD /\ iters < MAX_ITERATIONS

MaxUnroll == 120           \* loop iterations the model is able to follow

\* faulty variant: every run starts from the centre
SeedAtCentre(px, py) == [new_x |-> 0, new_y |-> 0, new_fxy |-> 0, iters |-> 0,
                         body |-> 0, stop |-> "run"]

\* The locals of the loop before its first iteration: new_x = x; new_y = y;
\* iters = 0.  body counts the executions of the loop body and stop names
\* the way out of the loop ("run": still in it).
Seed(px, py) == [new_x |-> px, new_y |-> py, new_fxy |-> 0, iters |-> 0,
                 body |-> 0, stop |-> "run"]

\* One execution of the body of the do-while loop and of its condition.
Body(s, diff) ==
    LET e == Evaluate(s.new_x, s.new_y, diff)
    IN  IF e.gms = 0
        THEN [s EXCEPT !.new_fxy = e.fxy, !.body = s.body + 1,
                       !.stop = "stationary"]
        ELSE [new_x |-> s.new_x - Step(e.fxy, e.dfx, e.gms),
              new_y |-> s.new_y - Step(e.fxy, e.dfy, e.gms),
              new_fxy |-> e.fxy,
              iters |-> s.iters + 1,
              body |-> s.body + 1,
              stop |-> IF LoopContinues(e.fxy, s.iters + 1) THEN "run"
                       ELSE IF fabsf(e.fxy) > ERROR_THRESHOLD THEN "cap"
                       ELSE "converged"]

\* Up to n further executions of the body, for as long as the loop runs.
RECURSIVE Loop(_, _, _)
Loop(s, diff, n) ==
    IF n = 0 \/ s.stop # "run" THEN s
    ELSE IF n = 1 THEN Body(s, diff)
    ELSE Loop(Loop(s, diff, n \div 2), diff, n - n \div 2)

\* do { ... } while (...), from the locals start
Solve(start, diff) == Loop(start, diff, MaxUnroll)

\* faulty variant: fabsf(new_fxy) <= MAX_ERROR
AcceptsAtCeiling(F) == fabsf(F) <= MAX_ERROR

\* if (fabsf(new_fxy) < MAX_ERROR)
Accepts(F) == fabsf(F) < MAX_ERROR

(* ------------------------- the handler, as a function ------------------ *)
Min(S) == CHOOSE m \in S : \A n \in S : m <= n

NoResult == [new_x |-> 0, new_y |-> 0, new_fxy |-> 0, iters |-> 0, body |-> 0,
             stop |-> "none"]

\* What one run of positioningHandler does with the captures time[0..3] when
\* the published position is (px, py): the way it leaves (exit), the index
\* it stopped at (i), the tick deltas it computed, the hypothesis the solver
\* started from (seed), the solver's result, and whether it reached
\* UltraTimer_ReadStatusRegister (cleared).
Run(px, py, time) ==
    LET bad == {i \in 0..3 : BadTime(time[i])}
        imp == {i \in 1..3 : Implausible(Diff(time, i))}
    IN  IF bad # {}
        THEN [exit |-> "time", i |-> Min(bad), time |-> time, ticks |-> <<>>,
              seed |-> <<0, 0>>, res |-> NoResult, cleared |-> FALSE]
        ELSE IF imp # {}
        THEN [exit |-> "diff", i |-> Min(imp), time |-> time,
              ticks |-> [j \in 1..Min(imp) |-> Ticks(time, j)],
              seed |-> <<0, 0>>, res |-> NoResult, cleared |-> FALSE]
        ELSE LET start == Seed(px, py)
                 res == Solve(start, [i \in 1..3 |-> Diff(time, i)])
             IN  [exit |-> IF Accepts(res.new_fxy) THEN "accept" ELSE "reject",
                  i |-> 4, time |-> time,
                  ticks |-> [j \in 1..3 |-> Ticks(time, j)],
                  seed |-> <<start.new_x, start.new_y>>, res |-> res,
                  cleared |-> TRUE]

(* ------------------------------ inputs -------------------------------- *)
MaxCycles == 3             \* handler invocations in a behaviour
NumConsumers == 2          \* main-line contexts that call the accessors

\* the timestamp k ticks below ULONG_MAX
Below(k) == Sub32(ULONG_MAX, U32(k))

Spacing == (CLOCK_FREQ \div 1000) * TX_SPACING

\* Captures of one four-ping window: time[0] is k0 ticks below ULONG_MAX and
\* ping i arrives d[i] ticks later (or earlier) than the nominal spacing.
Capture(k0, d) ==
    [i \in 0..3 |-> IF i = 0 THEN Below(k0) ELSE Below(k0 + i * Spacing + d[i])]

\* tick offsets of consistent and inconsistent windows
\*   <<-5147, -631, 3560>>  noise-free differences of the position (5.0, -3.0)
\*   <<0, 0, 0>>            the centre of the rectangle
\*   <<264, -264, 264>>     inconsistent, stationary at the centre, F = 0.27
\*   <<450, -450, 450>>     inconsistent, stationary at the centre, F = 0.78
\*   <<354, -304, 406>>     inconsistent, never converges
Offsets == { <<-5147, -631, 3560>>, <<0, 0, 0>>, <<264, -264, 264>>,
             <<450, -450, 450>>, <<354, -304, 406>> }

Scenario == Capture(Spacing, <<-5147, -631, 3560>>)

GoodCaptures == {Capture(Spacing, d) : d \in Offsets}

\* a window with one capture missing (zero) or older than the window allows
ZeroCaptures == {[Scenario EXCEPT ![j] = U32(0)] : j \in 0..3}
StaleCaptures ==
    {[Scenario EXCEPT ![j] = Below(CLOCK_FREQ + 1)] : j \in 0..3}
    \cup {[i \in 0..3 |-> IF i = 3 THEN Below(CLOCK_FREQ + 1)
                          ELSE Below(CLOCK_FREQ + 1 - (3 - i) * Spacing)]}

\* a window with one difference just beyond X + Y, of either sign
FarCaptures ==
    {Capture(Spacing, [<<0, 0, 0>> EXCEPT ![j] = 50441]) : j \in 1..3}
    \cup {Capture(Spacing, <<-50441, 0, 0>>)}

\* windows at the two ends of the valid range of timestamps
EdgeCaptures ==
    { [i \in 0..3 |-> IF i = 0 THEN Below(CLOCK_FREQ) ELSE Below(0)],
      [i \in 0..3 |-> IF i = 0 THEN Below(0) ELSE Below(CLOCK_FREQ)],
      [Capture(6 * Spacing, <<0, 0, 0>>) EXCEPT ![3] = Below(0)] }

Captures == GoodCaptures \cup ZeroCaptures \cup StaleCaptures \cup FarCaptures
            \cup EdgeCaptures

\* The positions the handler can have published before its n-th run.
RECURSIVE Published(_)
Published(n) ==
    IF n = 0 THEN {<<0, 0>>}
    ELSE LET before == Published(n - 1)
             runs == {Run(p[1], p[2], time) : p \in before, time \in Captures}
         IN  before \cup {<<r.res.new_x, r.res.new_y>> :
                             r \in {q \in runs : q.exit = "accept"}}

\* Run is a function of the published position and the captures alone: it is
\* tabulated once for the positions MaxCycles runs can start from.
RunOf == [p \in Published(MaxCycles - 1), time \in Captures |->
             Run(p[1], p[2], time)]

(* ------------------------------ state --------------------------------- *)
Consumers == 1..NumConsumers

VARIABLES
    x, y,          \* the current position (static float x, y)
    fxy,           \* the current error
    new_data,      \* 1 when new data is available
    int_disabled,  \* the global interrupt mask
    isr,           \* the locals of the last run of positioningHandler
    cycles,        \* runs of positioningHandler so far
    fix,           \* ghost: the cycle whose result is published (0: none)
    unreported,    \* ghost: a fix was accepted since the last test-and-clear
    pc, status, ret,   \* each consumer: position, saved mask, local ret
    fresh,         \* ghost: unreported, as each consumer's read found it
    rd             \* ghost: the cycles whose values each consumer has read

vars == <<x, y, fxy, new_data, int_disabled, isr, cycles, fix, unreported,
          pc, status, ret, fresh, rd>>

published == <<x, y, fxy, new_data>>
consumer == <<pc, status, ret, fresh, rd>>

Init ==
    /\ x = 0 /\ y = 0 /\ fxy = 0 /\ new_data = 0
    /\ int_disabled = FALSE
    /\ isr = [exit |-> "none", i |-> 0, time |-> [i \in 0..3 |-> U32(0)],
              ticks |-> <<>>, seed |-> <<0, 0>>, res |-> NoResult,
              cleared |-> FALSE]
    /\ cycles = 0 /\ fix = 0 /\ unreported = FALSE
    /\ pc = [c \in Consumers |-> "idle"]
    /\ status = [c \in Consumers |-> FALSE]
    /\ ret = [c \in Consumers |-> 0]
    /\ fresh = [c \in Consumers |-> FALSE]
    /\ rd = [c \in Consumers |-> <<>>]

(* ------------------------------ handler ------------------------------- *)
\* CY_ISR(positioningHandler): runs to completion once the interrupt is
\* taken, which needs interrupts enabled.
positioningHandler ==
    /\ ~int_disabled
    /\ cycles < MaxCycles
    /\ \E time \in Captures :
         \E r \in {RunOf[<<x, y>>, time]} :
            /\ isr' = r
            /\ cycles' = cycles + 1
            /\ IF r.exit = "accept"
               THEN /\ x' = r.res.new_x
                    /\ y' = r.res.new_y
                    /\ fxy' = r.res.new_fxy
                    /\ new_data' = 1
                    /\ fix' = cycles + 1
                    /\ unreported' = TRUE
               ELSE UNCHANGED <<x, y, fxy, new_data, fix, unreported>>
    /\ UNCHANGED <<int_disabled, pc, status, ret, fresh, rd>>

(* ------------------------------ consumers ----------------------------- *)
\* A context runs when interrupts are enabled, or when it is the one that
\* disabled them: with interrupts off nothing preempts it.
InCritical(c) == pc[c] \in {"entered", "read", "cleared"}
CanRun(c) == ~int_disabled \/ InCritical(c)

\* faulty variant: the flag is read and cleared with interrupts left as they were
LeavesInterruptsOn(mask) == mask

\* the interrupt mask after CyEnterCriticalSection()
CyEnterCriticalSection(mask) == TRUE

\* uint8 status = CyEnterCriticalSection();
DataAvailableEnter(c) ==
    /\ pc[c] = "idle" /\ CanRun(c)
    /\ status' = [status EXCEPT ![c] = int_disabled]
    /\ int_disabled' = CyEnterCriticalSection(int_disabled)
    /\ pc' = [pc EXCEPT ![c] = "entered"]
    /\ UNCHANGED <<published, isr, cycles, fix, unreported, ret, fresh, rd>>

\* uint8 ret = new_data;
DataAvailableRead(c) ==
    /\ pc[c] = "entered" /\ CanRun(c)
    /\ ret' = [ret EXCEPT ![c] = new_data]
    /\ fresh' = [fresh EXCEPT ![c] = unreported]
    /\ unreported' = FALSE
    /\ pc' = [pc EXCEPT ![c] = "read"]
    /\ UNCHANGED <<published, int_disabled, isr, cycles, fix, status, rd>>

\* new_data = 0u;
DataAvailableClear(c) ==
    /\ pc[c] = "read" /\ CanRun(c)
    /\ new_data' = 0
    /\ pc' = [pc EXCEPT ![c] = "cleared"]
    /\ UNCHANGED <<x, y, fxy, int_disabled, isr, cycles, fix, unreported,
                   status, ret, fresh, rd>>

\* CyExitCriticalSection(status); return ret;  A caller that got nonzero
\* goes on to read the position, one that got zero is done.
DataAvailableExit(c) ==
    /\ pc[c] = "cleared" /\ CanRun(c)
    /\ int_disabled' = status[c]
    /\ pc' = [pc EXCEPT ![c] = IF ret[c] # 0 THEN "got" ELSE "idle"]
    /\ ret' = [ret EXCEPT ![c] = 0]
    /\ fresh' = [fresh EXCEPT ![c] = FALSE]
    /\ UNCHANGED <<published, isr, cycles, fix, unreported, status, rd>>

\* float position_x(void) { return x; }
position_x(c) ==
    /\ pc[c] = "got" /\ CanRun(c)
    /\ rd' = [rd EXCEPT ![c] = <<[v |-> x, from |-> fix]>>]
    /\ pc' = [pc EXCEPT ![c] = "x"]
    /\ UNCHANGED <<published, int_disabled, isr, cycles, fix, unreported,
                   status, ret, fresh>>

\* float position_y(void) { return y; }
position_y(c) ==
    /\ pc[c] = "x" /\ CanRun(c)
    /\ rd' = [rd EXCEPT ![c] = Append(@, [v |-> y, from |-> fix])]
    /\ pc' = [pc EXCEPT ![c] = "y"]
    /\ UNCHANGED <<published, int_disabled, isr, cycles, fix, unreported,
                   status, ret, fresh>>

\* float error(void) { return fxy; }
error(c) ==
    /\ pc[c] = "y" /\ CanRun(c)
    /\ rd' = [rd EXCEPT ![c] = Append(@, [v |-> fxy, from |-> fix])]
    /\ pc' = [pc EXCEPT ![c] = "e"]
    /\ UNCHANGED <<published, int_disabled, isr, cycles, fix, unreported,
                   status, ret, fresh>>

\* the caller drops the three values and polls again
Poll(c) ==
    /\ pc[c] = "e" /\ CanRun(c)
    /\ rd' = [rd EXCEPT ![c] = <<>>]
    /\ pc' = [pc EXCEPT ![c] = "idle"]
    /\ UNCHANGED <<published, int_disabled, isr, cycles, fix, unreported,
                   status, ret, fresh>>

position_data_available(c) ==
    \/ DataAvailableEnter(c)
    \/ DataAvailableRead(c)
    \/ DataAvailableClear(c)
    \/ DataAvailableExit(c)

Next ==
    \/ positioningHandler
    \/ \E c \in Consumers : position_data_available(c)
    \/ \E c \in Consumers : position_x(c)
    \/ \E c \in Consumers : position_y(c)
    \/ \E c \in Consumers : error(c)
    \/ \E c \in Consumers : Poll(c)

Spec == Init /\ [][Next]_vars

(* ====================================================================== *)
(* Properties                                                             *)
(* ====================================================================== *)
HandlerRan == cycles' = cycles + 1
Solved(r) == r.exit \in {"accept", "reject"}
Replaced(r) == /\ x' = r.res.new_x /\ y' = r.res.new_y /\ fxy' = r.res.new_fxy
               /\ new_data' = 1

\* the value of time[0] - time[i] - i * 100000 over the integers, for
\* timestamps of the last 2^20 ticks before the counter's maximum
ExactTicks(time, i) ==
    (time[0][1] - time[i][1]) * 65536 + (time[0][2] - time[i][2]) - i * 100000

\* a timestamp that is zero or less than 4294967295 - 1000000 = 0xFFF0BDBF
ZeroOrStale(t) == t = <<0, 0>> \/ t[1] < 65520 \/ (t[1] = 65520 /\ t[2] < 48575)

\* a difference of more than 23.5 + 33.75 ft in magnitude, at 0.001135 ft/tick
TooFar(time) == \E i \in 1..3 : Abs(ExactTicks(time, i)) * 1135 > 57250000

Offending(time) ==
    IF \E i \in 0..3 : ZeroOrStale(time[i]) THEN TRUE ELSE TooFar(time)

\* C1 as stated: after a solver run with final cost F, F > MAX_ERROR leaves
\* the published x, y, error and flag unchanged and F <= MAX_ERROR (the
\* ceiling itself included) replaces them and sets the flag.
C1_AtOrBelowCeiling ==
    [][(HandlerRan /\ Solved(isr')) =>
         IF isr'.res.new_fxy > MAX_ERROR THEN UNCHANGED published
         ELSE Replaced(isr')]_vars

\* C1 amended: after a solver run, F >= MAX_ERROR leaves the published x, y,
\* error and flag unchanged and F < MAX_ERROR replaces them by the solver's
\* result and sets the flag; a set flag is cleared only by the clearing step
\* of a position_data_available call.
C1_BelowCeiling ==
    [][/\ (HandlerRan /\ Solved(isr')) =>
             IF isr'.res.new_fxy >= MAX_ERROR THEN UNCHANGED published
             ELSE Replaced(isr')
       /\ (new_data = 1 /\ new_data' = 0) =>
             \E c \in Consumers : pc[c] = "read" /\ pc'[c] = "cleared"]_vars

\* C1 witness: a run ended with F exactly MAX_ERROR while an earlier fix was
\* still flagged, and was not published.
C1_Witness ==
    /\ isr.exit = "reject" /\ isr.res.new_fxy = MAX_ERROR
    /\ new_data = 1 /\ fxy # MAX_ERROR

\* C2: a run whose captures hold a zero or stale timestamp, or a difference
\* of magnitude above X + Y, leaves x, y, error and the flag as they were.
C2_GarbageFrame ==
    [][(HandlerRan /\ Offending(isr'.time)) => UNCHANGED published]_vars

\* C2 witness: a run stopped at the third difference with a fix published
\* and flagged before it.
C2_Witness ==
    /\ isr.exit = "diff" /\ isr.i = 3 /\ new_data = 1 /\ <<x, y>> # <<0, 0>>

\* C3: a position_data_available call returns nonzero exactly when a fix was
\* accepted since the previous call read the flag, and outside a call's
\* read-to-clear window the flag is set exactly when such a fix is pending.
C3_TestAndClear ==
    /\ \A c \in Consumers :
          pc[c] \in {"read", "cleared"} => ((ret[c] # 0) <=> fresh[c])
    /\ (\A c \in Consumers : pc[c] # "read") => ((new_data = 1) <=> unreported)

\* C3 witness: one consumer got nonzero and, with no run in between, another
\* reads zero.
C3_Witness ==
    \E c, d \in Consumers :
       /\ c # d /\ pc[c] = "got" /\ pc[d] = "read" /\ ret[d] = 0
       /\ cycles = 1

\* C4: the three values a consumer reads after a nonzero
\* position_data_available come from one accepted cycle.
C4_OneCycle ==
    \A c \in Consumers :
       pc[c] = "e" => /\ rd[c][1].from = rd[c][2].from
                      /\ rd[c][2].from = rd[c][3].from

\* C5: a run that reaches the solver leaves the loop after 1 to
\* MAX_ITERATIONS executions of the body, by convergence (cost not above
\* ERROR_THRESHOLD), at the cap (iters = MAX_ITERATIONS) or at a zero
\* gradient, and then ends in acceptance or rejection; every run returns.
C5_BoundedLoop ==
    /\ cycles > 0 => isr.exit \in {"time", "diff", "accept", "reject"}
    /\ Solved(isr) =>
          /\ isr.res.body \in 1..MAX_ITERATIONS
          /\ isr.res.iters <= MAX_ITERATIONS
          /\ isr.res.stop \in {"converged", "cap", "stationary"}
          /\ isr.res.stop = "converged" => isr.res.new_fxy <= ERROR_THRESHOLD
          /\ isr.res.stop = "cap" => /\ isr.res.iters = MAX_ITERATIONS
                                     /\ isr.res.new_fxy > ERROR_THRESHOLD
          /\ isr.res.stop = "stationary" => isr.res.body = isr.res.iters + 1

\* C5 witness: a run that left the loop at the iteration cap.
C5_Witness ==
    /\ Solved(isr) /\ isr.res.stop = "cap" /\ isr.res.body = MAX_ITERATIONS

\* C6: from the seed (0, 0), the captures of the position (5.0, -3.0) end in
\* convergence within MAX_ITERATIONS iterations with F below the threshold,
\* and the published (x, y) is within 0.5 ft of (5.0, -3.0).
C6_Scenario ==
    (isr.time = Scenario /\ isr.seed = <<0, 0>>) =>
       /\ isr.exit = "accept"
       /\ isr.res.stop = "converged"
       /\ isr.res.iters <= MAX_ITERATIONS
       /\ isr.res.new_fxy < ERROR_THRESHOLD
       /\ <<x, y>> = <<isr.res.new_x, isr.res.new_y>>
       /\ Abs(x - 5 * FT) <= EPSILON /\ Abs(y + 3 * FT) <= EPSILON
       /\ (x - 5 * FT) * (x - 5 * FT) + (y + 3 * FT) * (y + 3 * FT)
             <= EPSILON * EPSILON

\* C6 witness: the scenario's run from the seed (0, 0) was accepted.
C6_Witness ==
    /\ isr.time = Scenario /\ isr.seed = <<0, 0>> /\ isr.exit = "accept"
    /\ cycles = 1

\* C7: every run reads the timer's status register before it returns.
C7_InterruptCleared == isr.exit # "none" => isr.cleared

\* C8: after an accepted run the published error is the cost at the
\* published (x, y) for that run's measured differences.
C8_ErrorAtPosition ==
    isr.exit = "accept" =>
       fxy = Evaluate(x, y, [i \in 1..3 |-> Diff(isr.time, i)]).fxy

\* C9: every tick delta the handler computes equals the integer
\* time[0] - time[i] - i * 100000.
C9_ExactDelta ==
    \A j \in DOMAIN isr.ticks : isr.ticks[j] = ExactTicks(isr.time, j)

\* C9 witness: the most negative delta of a valid window (time[0] at the
\* staleness limit, time[1] at the counter's maximum) after a positive one.
C9_Witness ==
    /\ isr.ticks = <<-1100000>>
    /\ isr.time[0] = <<65520, 48575>> /\ isr.time[1] = <<65535, 65535>>
    /\ fix = 1 /\ cycles = 2

\* C10: a run that reaches the solver starts from the (x, y) published at its
\* entry, and the published position changes only to the result of an
\* accepted run.
C10_Seeding ==
    [][/\ (HandlerRan /\ Solved(isr')) => isr'.seed = <<x, y>>
       /\ (<<x, y, fxy>>' # <<x, y, fxy>>) =>
             /\ HandlerRan /\ isr'.exit = "accept"
             /\ <<x', y', fxy'>> =
                   <<isr'.res.new_x, isr'.res.new_y, isr'.res.new_fxy>>]_vars

\* C10 witness: the first run was accepted, the second and third were not,
\* and the third started its solver from the first run's fix.
C10_Witness ==
    /\ cycles = 3 /\ fix = 1
    /\ isr.exit = "reject" /\ isr.seed # <<0, 0>> /\ isr.seed = <<x, y>>

=============================================================================
